---- MODULE Spec2Model ----
(***************************************************************************)
(* Training-volume planning engine of src/data/volume.ts.                  *)
(*                                                                         *)
(* Numbers.  A JavaScript number holding kilometres is modelled as an      *)
(* exact decimal: volumes handed to calculateIdealWeekVolume and to        *)
(* generateTrainingPlan are integers in units of 0.01 km (the precision    *)
(* getWeeklyRunningStats rounds to), the intermediate values of            *)
(* calculateVolumeRecommendation are integers in units of 0.00001 km, and  *)
(* the compound-growth curve is evaluated with exact big-number            *)
(* arithmetic.  Math.round(x * 10) / 10 is round-half-up to 0.1 km.  The   *)
(* running total of getWeeklyRunningStats is summed as binary64 doubles    *)
(* in the order of the list.                                               *)
(*                                                                         *)
(* Dates.  A Date is its epoch value in hours; hour 0 is a Monday 00:00    *)
(* UTC.  The local-time methods (getDay, setDate, setHours) go through     *)
(* the time zone of the environment, which may have one daylight-saving    *)
(* transition (tz).  The functions that take Dates are modelled a second   *)
(* time on a store of mutable Date objects (the operators named ...On),    *)
(* and every call records the store before and after it.                   *)
(*                                                                         *)
(* Specifications.  Spec is the application: the clock, the profile and    *)
(* the two assemblers as the pages call them.  FunctionSpec is the module  *)
(* interface: every exported function called directly.                     *)
(***************************************************************************)
EXTENDS Integers, Naturals, Sequences, FiniteSets, TLC

(***************************************************************************)
(* Exact natural-number arithmetic beyond the machine word: a number is a  *)
(* little-endian sequence of base-BigBase digits without leading zeros.    *)
(***************************************************************************)
BigBase == 100 * 100

RECURSIVE BigOf(_)
BigOf(n) == IF n = 0 THEN << >> ELSE <<n % BigBase>> \o BigOf(n \div BigBase)

RECURSIVE BigMulCarry(_, _, _)
BigMulCarry(a, k, carry) ==
    IF a = << >> THEN BigOf(carry)
    ELSE LET t == Head(a) * k + carry
         IN  <<t % BigBase>> \o BigMulCarry(Tail(a), k, t \div BigBase)

\* a * k for a machine-word k (k < 200000)
BigMulSmall(a, k) == IF k = 0 THEN << >> ELSE BigMulCarry(a, k, 0)

RECURSIVE BigMulPow(_, _, _)
\* a * k^e
BigMulPow(a, k, e) == IF e = 0 THEN a ELSE BigMulPow(BigMulSmall(a, k), k, e - 1)

RECURSIVE BigCmpFrom(_, _, _)
BigCmpFrom(a, b, i) ==
    IF i = 0 THEN 0
    ELSE IF a[i] < b[i] THEN -1
    ELSE IF a[i] > b[i] THEN 1
    ELSE BigCmpFrom(a, b, i - 1)

\* -1, 0, 1 as a < b, a = b, a > b
BigCmp(a, b) ==
    IF Len(a) < Len(b) THEN -1
    ELSE IF Len(a) > Len(b) THEN 1
    ELSE BigCmpFrom(a, b, Len(a))

BigLeq(a, b) == BigCmp(a, b) <= 0

RECURSIVE BigDivRem(_, _)
\* long division of a by a machine-word k: [q |-> digits of the quotient
\* (leading zeros kept), r |-> remainder]
BigDivRem(a, k) ==
    IF a = << >> THEN [q |-> << >>, r |-> 0]
    ELSE LET hi == BigDivRem(Tail(a), k)
             t  == hi.r * BigBase + Head(a)
         IN  [q |-> <<t \div k>> \o hi.q, r |-> t % k]

RECURSIVE BigNorm(_)
BigNorm(a) ==
    IF a = << >> THEN a
    ELSE IF a[Len(a)] = 0 THEN BigNorm(SubSeq(a, 1, Len(a) - 1))
    ELSE a

\* floor(a / k)
BigDivSmall(a, k) == BigNorm(BigDivRem(a, k).q)

RECURSIVE BigDivPow(_, _, _)
\* floor(a / k^e)
BigDivPow(a, k, e) == IF e = 0 THEN a ELSE BigDivPow(BigDivSmall(a, k), k, e - 1)

RECURSIVE BigAddCarry(_, _, _)
BigAddCarry(a, b, carry) ==
    IF a = << >> /\ b = << >> THEN BigOf(carry)
    ELSE LET x == IF a = << >> THEN 0 ELSE Head(a)
             y == IF b = << >> THEN 0 ELSE Head(b)
             t == x + y + carry
         IN  <<t % BigBase>> \o
             BigAddCarry(IF a = << >> THEN a ELSE Tail(a),
                         IF b = << >> THEN b ELSE Tail(b), t \div BigBase)

BigAdd(a, b) == BigAddCarry(a, b, 0)

RECURSIVE BigToInt(_)
\* the value of a, for a that fits a machine word
BigToInt(a) == IF a = << >> THEN 0 ELSE Head(a) + BigBase * BigToInt(Tail(a))

Min(a, b) == IF a < b THEN a ELSE b
Max(a, b) == IF a > b THEN a ELSE b

\* round-half-up of num / den for machine-word num >= 0, den > 0
\* (Math.round of a non-negative quotient)
RoundDiv(num, den) == (2 * num + den) \div (2 * den)

(***************************************************************************)
(* Constants of volume.ts.  Kilometre constants are in units of 0.01 km,   *)
(* ratios are in percent.                                                  *)
(***************************************************************************)
RaceGoals == {"10K", "HalfMarathon", "FullMarathon"}
RunnerLevels == {"beginner", "intermediate", "advanced"}

\* RACE_DISTANCES in units of 0.0001 km
RACE_DISTANCES ==
    [g \in RaceGoals |->
        CASE g = "10K" -> 100000
          [] g = "HalfMarathon" -> 210975
          [] g = "FullMarathon" -> 421950]

\* PEAK_VOLUMES_BY_LEVEL in km
PEAK_VOLUMES_BY_LEVEL ==
    [g \in RaceGoals |->
        CASE g = "10K" ->
               [beginner |-> 35, intermediate |-> 50, advanced |-> 65]
          [] g = "HalfMarathon" ->
               [beginner |-> 50, intermediate |-> 65, advanced |-> 80]
          [] g = "FullMarathon" ->
               [beginner |-> 65, intermediate |-> 85, advanced |-> 105]]

\* LEVEL_TIME_THRESHOLDS in minutes
LEVEL_TIME_THRESHOLDS ==
    [g \in RaceGoals |->
        CASE g = "10K" -> [beginnerMax |-> 55, intermediateMax |-> 45]
          [] g = "HalfMarathon" -> [beginnerMax |-> 120, intermediateMax |-> 95]
          [] g = "FullMarathon" -> [beginnerMax |-> 270, intermediateMax |-> 210]]

\* 10 km, in units of 0.01 km
MIN_WEEKLY_VOLUME == 1000
\* 0.1, in percent
MAX_VOLUME_INCREASE_RATIO == 10
\* 0.75, in percent
PEAK_LONG_RUN_RATIO == 75
\* 0.3, in percent
LONG_RUN_WEEKLY_RATIO == 30
WEEKS_BEFORE_RACE_FOR_PEAK == 2
\* [0.25, 0.4], in percent
TAPER_REDUCTIONS == <<25, 40>>

(***************************************************************************)
(* The progression model.                                                  *)
(***************************************************************************)
\* mutation of isCutbackWeek: only the weeks after the peak week are excluded
isCutbackWeek_PeakWeekIncluded(weekNumber, peakWeek) ==
    IF weekNumber > peakWeek THEN FALSE
    ELSE weekNumber > 0 /\ weekNumber % 4 = 0

isCutbackWeek(weekNumber, peakWeek) ==
    IF weekNumber >= peakWeek THEN FALSE
    ELSE weekNumber > 0 /\ weekNumber % 4 = 0

\* mutation of progressionCount: a cutback week advances the count too
progressionCount_CountsCutbacks(weekNumber, peakWeek) ==
    Cardinality(2..weekNumber)

\* the loop "for (w = 2; w <= weekNumber; w++) if (!isCutbackWeek) count++"
progressionCount(weekNumber, peakWeek) ==
    Cardinality({w \in 2..weekNumber : ~isCutbackWeek(w, peakWeek)})

\* progressionWeeks = weeksToGrow - cutbackWeeks
progressionWeeks(peakWeek) == (peakWeek - 1) - ((peakWeek - 1) \div 4)

\* growthRate > MAX_VOLUME_INCREASE_RATIO, for
\* growthRate = (peak / start) ** (1 / n) - 1:  peak / start > 1.1^n.
\* A zero start makes the quotient Infinity, which is capped too.
growthIsCapped(peakVolume, startingVolume, n) ==
    BigCmp(BigMulPow(BigOf(peakVolume), 100, n),
           BigMulPow(BigOf(startingVolume), 100 + MAX_VOLUME_INCREASE_RATIO, n)) > 0

\* Math.round(volume * 10) / 10 for
\* volume = start * 1.1^count * (num / den), in units of 0.01 km
cappedCurve(startingVolume, count, num, den) ==
    LET n2 == BigMulSmall(
                 BigMulPow(BigOf(startingVolume),
                           100 + MAX_VOLUME_INCREASE_RATIO, count), 2 * num)
        d1 == BigMulPow(BigOf(10 * den), 100, count)
        tenths == BigToInt(BigDivSmall(
                     BigDivPow(BigDivSmall(BigAdd(n2, d1), 10), 100, count),
                     2 * den))
    IN  10 * tenths

RECURSIVE rootSearch(_, _, _, _, _)
\* the largest v in lo..hi with ((2v - 1) * 5 * den)^n <= target; lo satisfies it
rootSearch(lo, hi, target, den, n) ==
    IF lo = hi THEN lo
    ELSE LET mid == (lo + hi + 1) \div 2
         IN  IF BigLeq(BigMulPow(BigOf(1), (2 * mid - 1) * 5 * den, n), target)
             THEN rootSearch(mid, hi, target, den, n)
             ELSE rootSearch(lo, mid - 1, target, den, n)

\* Math.round(volume * 10) / 10 for
\* volume = start * (peak / start)^(count / n) * (num / den), in units of
\* 0.01 km: the number of tenths v is the largest one with
\* (v - 1/2) * 10 <= volume
uncappedCurve(peakVolume, startingVolume, n, count, num, den) ==
    LET target == BigMulPow(BigMulPow(BigMulPow(BigOf(1), num, n),
                                      startingVolume, n - count),
                            peakVolume, count)
        hi == Max(peakVolume, startingVolume) \div 10 + 1
    IN  10 * rootSearch(0, hi, target, den, n)

\* mutation of taperPhaseVolume: the table entry is taken as the share that
\* is kept, not as the reduction
taperPhaseVolume_KeepsReduction(weekNumber, peakWeek, peakVolumeKm) ==
    LET weeksAfterPeak == weekNumber - peakWeek
    IN  IF weeksAfterPeak <= Len(TAPER_REDUCTIONS)
        THEN 10 * RoundDiv(peakVolumeKm * TAPER_REDUCTIONS[weeksAfterPeak], 1000)
        ELSE peakVolumeKm \div 2

\* the taper branch of calculateIdealWeekVolume (weekNumber > peakWeek)
taperPhaseVolume(weekNumber, peakWeek, peakVolumeKm) ==
    LET weeksAfterPeak == weekNumber - peakWeek
    IN  IF weeksAfterPeak <= Len(TAPER_REDUCTIONS)
        THEN 10 * RoundDiv(peakVolumeKm * (100 - TAPER_REDUCTIONS[weeksAfterPeak]),
                           1000)
        ELSE peakVolumeKm \div 2

\* mutation of buildPhaseVolume: a cutback week is not reduced
buildPhaseVolume_NoCutback(weekNumber, peakWeek, peakVolumeKm, startingVolumeKm) ==
    IF progressionWeeks(peakWeek) <= 0 THEN startingVolumeKm
    ELSE LET n     == progressionWeeks(peakWeek)
             count == progressionCount(weekNumber, peakWeek)
         IN  IF growthIsCapped(peakVolumeKm, startingVolumeKm, n)
             THEN cappedCurve(startingVolumeKm, count, 1, 1)
             ELSE uncappedCurve(peakVolumeKm, startingVolumeKm, n, count, 1, 1)

\* the build-up branch of calculateIdealWeekVolume (0 < weekNumber < peakWeek)
buildPhaseVolume(weekNumber, peakWeek, peakVolumeKm, startingVolumeKm) ==
    IF progressionWeeks(peakWeek) <= 0 THEN startingVolumeKm
    ELSE LET n     == progressionWeeks(peakWeek)
             count == progressionCount(weekNumber, peakWeek)
             cut   == isCutbackWeek(weekNumber, peakWeek)
             num   == IF cut THEN 3 ELSE 1
             den   == IF cut THEN 4 ELSE 1
         IN  IF growthIsCapped(peakVolumeKm, startingVolumeKm, n)
             THEN cappedCurve(startingVolumeKm, count, num, den)
             ELSE uncappedCurve(peakVolumeKm, startingVolumeKm, n, count, num, den)

\* the divisor of the growth-rate division peakVolumeKm / startingVolumeKm
\* of a call: <<startingVolumeKm>> when the call evaluates the division
\* (build-up phase with progression weeks), << >> when it returns before
growthRateDivisor(weekNumber, peakWeek, startingVolumeKm) ==
    IF weekNumber <= 0 \/ weekNumber >= peakWeek THEN << >>
    ELSE IF progressionWeeks(peakWeek) <= 0 THEN << >>
    ELSE <<startingVolumeKm>>

\* mutation of calculateIdealWeekVolume: the peak week is not forced to
\* peakVolumeKm, it falls through to the build-up curve
calculateIdealWeekVolume_NoPeakBranch(weekNumber, peakWeek, peakVolumeKm, startingVolumeKm) ==
    IF weekNumber <= 0 THEN startingVolumeKm
    ELSE IF weekNumber > peakWeek
         THEN taperPhaseVolume(weekNumber, peakWeek, peakVolumeKm)
    ELSE buildPhaseVolume(weekNumber, peakWeek, peakVolumeKm, startingVolumeKm)

\* calculateIdealWeekVolume; peakVolumeKm, startingVolumeKm and the result
\* are in units of 0.01 km
calculateIdealWeekVolume(weekNumber, peakWeek, peakVolumeKm, startingVolumeKm) ==
    IF weekNumber <= 0 THEN startingVolumeKm
    ELSE IF weekNumber > peakWeek
         THEN taperPhaseVolume(weekNumber, peakWeek, peakVolumeKm)
    ELSE IF weekNumber = peakWeek THEN peakVolumeKm
    ELSE buildPhaseVolume(weekNumber, peakWeek, peakVolumeKm, startingVolumeKm)

(***************************************************************************)
(* Runner level.  A string is a sequence of one-character strings; the     *)
(* value null is NoTimeGoal.                                               *)
(***************************************************************************)
NoTimeGoal == <<"null">>
Digits == <<"0", "1", "2", "3", "4", "5", "6", "7", "8", "9">>
isDigit(c) == \E i \in 1..10 : Digits[i] = c
digitValue(c) == (CHOOSE i \in 1..10 : Digits[i] = c) - 1

RECURSIVE split(_, _)
\* String.prototype.split(sep): the segments between the separators
split(str, sep) ==
    IF \A i \in 1..Len(str) : str[i] # sep THEN <<str>>
    ELSE LET i == CHOOSE j \in 1..Len(str) :
                      str[j] = sep /\ \A k \in 1..(j - 1) : str[k] # sep
         IN  <<SubSeq(str, 1, i - 1)>> \o split(SubSeq(str, i + 1, Len(str)), sep)

RECURSIVE skipSpaces(_)
skipSpaces(str) ==
    IF str # << >> /\ Head(str) = " " THEN skipSpaces(Tail(str)) ELSE str

RECURSIVE leadingDigits(_, _)
\* the value of the longest digit prefix of str, continuing from acc
leadingDigits(str, acc) ==
    IF str # << >> /\ isDigit(Head(str))
    THEN leadingDigits(Tail(str), 10 * acc + digitValue(Head(str)))
    ELSE acc

\* Number.parseInt(str, 10): leading blanks, an optional sign, then the
\* digit prefix; NaN when there is no digit
parseInt(str) ==
    LET t    == skipSpaces(str)
        neg  == t # << >> /\ Head(t) = "-"
        body == IF t # << >> /\ Head(t) \in {"-", "+"} THEN Tail(t) ELSE t
    IN  IF body = << >> \/ ~isDigit(Head(body))
        THEN [isNaN |-> TRUE, value |-> 0]
        ELSE [isNaN |-> FALSE,
              value |-> IF neg THEN 0 - leadingDigits(body, 0)
                        ELSE leadingDigits(body, 0)]

\* mutation of parseRaceTimeToMinutes: a segment that is not a number counts
\* as 0
parseRaceTimeToMinutes_NaNAsZero(raceTimeGoal) ==
    LET parts == split(raceTimeGoal, ":")
    IN  IF Len(parts) # 3 THEN [isNull |-> TRUE, seconds |-> 0]
        ELSE [isNull |-> FALSE,
              seconds |-> parseInt(parts[1]).value * 3600
                          + parseInt(parts[2]).value * 60
                          + parseInt(parts[3]).value]

\* parseRaceTimeToMinutes, with the result in seconds (minutes * 60)
parseRaceTimeToMinutes(raceTimeGoal) ==
    LET parts == split(raceTimeGoal, ":")
    IN  IF Len(parts) # 3 THEN [isNull |-> TRUE, seconds |-> 0]
        ELSE LET hours   == parseInt(parts[1])
                 minutes == parseInt(parts[2])
                 seconds == parseInt(parts[3])
             IN  IF hours.isNaN \/ minutes.isNaN \/ seconds.isNaN
                 THEN [isNull |-> TRUE, seconds |-> 0]
                 ELSE [isNull |-> FALSE,
                       seconds |-> hours.value * 3600 + minutes.value * 60
                                   + seconds.value]

\* mutation of determineRunnerLevel: a time equal to beginnerMax is not yet
\* a beginner's time
determineRunnerLevel_StrictBeginner(raceGoal, raceTimeGoal) ==
    IF raceTimeGoal = NoTimeGoal \/ raceTimeGoal = << >> THEN "beginner"
    ELSE LET timeInMinutes == parseRaceTimeToMinutes(raceTimeGoal)
             thresholds    == LEVEL_TIME_THRESHOLDS[raceGoal]
         IN  IF timeInMinutes.isNull THEN "beginner"
             ELSE IF timeInMinutes.seconds > thresholds.beginnerMax * 60
                  THEN "beginner"
             ELSE IF timeInMinutes.seconds >= thresholds.intermediateMax * 60
                  THEN "intermediate"
             ELSE "advanced"

determineRunnerLevel(raceGoal, raceTimeGoal) ==
    IF raceTimeGoal = NoTimeGoal \/ raceTimeGoal = << >> THEN "beginner"
    ELSE LET timeInMinutes == parseRaceTimeToMinutes(raceTimeGoal)
             thresholds    == LEVEL_TIME_THRESHOLDS[raceGoal]
         IN  IF timeInMinutes.isNull THEN "beginner"
             ELSE IF timeInMinutes.seconds >= thresholds.beginnerMax * 60
                  THEN "beginner"
             ELSE IF timeInMinutes.seconds >= thresholds.intermediateMax * 60
                  THEN "intermediate"
             ELSE "advanced"

\* getPeakVolumeForLevel, in units of 0.01 km
getPeakVolumeForLevel(raceGoal, raceTimeGoal) ==
    100 * PEAK_VOLUMES_BY_LEVEL[raceGoal][determineRunnerLevel(raceGoal, raceTimeGoal)]

\* Math.round(raceDistanceKm * PEAK_LONG_RUN_RATIO * 10) / 10, in units of 0.01 km
\* mutation of peakLongRunOf: the peak long run is the whole race distance
peakLongRunOf_WholeDistance(raceGoal) ==
    10 * RoundDiv(RACE_DISTANCES[raceGoal] * 100, 100000)

peakLongRunOf(raceGoal) ==
    10 * RoundDiv(RACE_DISTANCES[raceGoal] * PEAK_LONG_RUN_RATIO, 100000)

(***************************************************************************)
(* Dates.  tz is the time zone of the environment: base is the offset of   *)
(* local time from UTC in hours, and from the instant `at' on the offset   *)
(* is base + shift (shift = 1: clocks go forward, -1: back, 0: no change). *)
(***************************************************************************)
VARIABLES tz, today, raceGoal, raceDate, call

vars == <<tz, today, raceGoal, raceDate, call>>

HoursPerDay == 24
HoursPerWeek == 7 * HoursPerDay

utcOffset(t) == IF t >= tz.at THEN tz.base + tz.shift ELSE tz.base

\* the local date and time of the instant t, in hours
localTime(t) == t + utcOffset(t)

\* the instant of a local date and time; a local time that the transition
\* skips or repeats is read with the offset before the transition
fromLocalTime(w) ==
    IF w - tz.base < tz.at THEN w - tz.base
    ELSE IF w - tz.base - tz.shift >= tz.at THEN w - tz.base - tz.shift
    ELSE w - tz.base

\* Date.prototype.getDay: 0 = Sunday .. 6 = Saturday
getDay(t) == ((localTime(t) \div HoursPerDay) + 1) % 7

\* d.setDate(d.getDate() + n)
addDays(t, n) == fromLocalTime(localTime(t) + n * HoursPerDay)

\* d.setHours(0, 0, 0, 0)
atMidnight(t) == fromLocalTime((localTime(t) \div HoursPerDay) * HoursPerDay)

\* mutation of getWeekStart: a Sunday is moved like the other days
getWeekStart_SundayForward(date) ==
    LET day  == getDay(date)
        diff == 1 - day
    IN  atMidnight(addDays(date, diff))

getWeekStart(date) ==
    LET day  == getDay(date)
        diff == IF day = 0 THEN -6 ELSE 1 - day
    IN  atMidnight(addDays(date, diff))

\* mutation of getWeeksBetween: the dates are not moved to their week starts
getWeeksBetween_NoWeekStart(startDate, endDate) ==
    (endDate - startDate) \div HoursPerWeek

getWeeksBetween(startDate, endDate) ==
    (getWeekStart(endDate) - getWeekStart(startDate)) \div HoursPerWeek

(***************************************************************************)
(* Weekly statistics.  An activity is [type, date, distanceInKm] with the  *)
(* distance in units of 0.001 km; the statistics are in units of 0.01 km.  *)
(***************************************************************************)
\* mutation of isRunningActivity: only outdoor runs count
isRunningActivity_RoadRunOnly(activity) ==
    activity.type = "RoadRun"

isRunningActivity(activity) ==
    activity.type = "RoadRun" \/ activity.type = "TreadmillRun"

RECURSIVE maxDistance(_)
maxDistance(acts) ==
    IF acts = << >> THEN 0 ELSE Max(Head(acts).distanceInKm, maxDistance(Tail(acts)))

\* The distances are doubles (IEEE 754 binary64) and the total is summed in
\* the order of the list, every sum rounded to the nearest double.  A
\* non-negative double x is the natural number x * 2^FractionBits, which is
\* exact for every value of 2^-11 km and more.
MantissaBits == 50 + 3
FractionBits == 8 * 8
ChunkBits == 4 * 4

\* a * 2^n and floor(a / 2^n), ChunkBits bits at a time
shiftLeft(a, n) ==
    BigMulSmall(BigMulPow(a, 2^ChunkBits, n \div ChunkBits), 2^(n % ChunkBits))
shiftRight(a, n) ==
    BigDivSmall(BigDivPow(a, 2^ChunkBits, n \div ChunkBits), 2^(n % ChunkBits))

RECURSIVE ulpExponent(_, _, _)
\* the least i from j on with p < limit * 2^(i - j)
ulpExponent(p, limit, j) ==
    IF BigCmp(p, limit) < 0 THEN j
    ELSE ulpExponent(p, BigMulSmall(limit, 2), j + 1)

\* the double nearest to p / q, a tie going to the even mantissa
nearestDouble(p, q) ==
    IF p = << >> THEN << >>
    ELSE LET j     == ulpExponent(p, shiftLeft(BigOf(q), MantissaBits), 0)
             twice == BigAdd(BigMulSmall(p, 2), shiftLeft(BigOf(q), j))
             m     == BigDivSmall(shiftRight(twice, j + 1), q)
             tie   == BigCmp(BigMulSmall(shiftLeft(m, j + 1), q), twice) = 0
             mantissa == IF tie /\ m[1] % 2 = 1
                         THEN BigDivSmall(shiftRight(p, j), q)
                         ELSE m
         IN  shiftLeft(mantissa, j)

\* the double of a distance of n thousandths of a kilometre
doubleOfDistance(n) == nearestDouble(shiftLeft(BigOf(n), FractionBits), 1000)

\* a + b of two doubles
doubleAdd(a, b) == nearestDouble(BigAdd(a, b), 1)

\* Math.round(x * 100) of a double x: the product is rounded to a double,
\* Math.round is exact and rounds a half up
roundHundredths(x) ==
    BigToInt(shiftRight(BigAdd(nearestDouble(BigMulSmall(x, 100), 1),
                               shiftLeft(BigOf(1), FractionBits - 1)),
                        FractionBits))

RECURSIVE sumDistance(_, _)
\* totalDistanceKm += activity.distanceInKm, in the order of the list
sumDistance(acts, total) ==
    IF acts = << >> THEN total
    ELSE sumDistance(Tail(acts),
                     doubleAdd(total, doubleOfDistance(Head(acts).distanceInKm)))

RECURSIVE thousandths(_)
\* the exact total of the distances, in units of 0.001 km
thousandths(acts) ==
    IF acts = << >> THEN 0 ELSE Head(acts).distanceInKm + thousandths(Tail(acts))

\* Math.round(totalDistanceKm * 100), in units of 0.01 km.  The double total
\* is within 10^-9 km of the exact total, so a total that is not halfway
\* between two hundredths rounds as the exact total does; a halfway total
\* rounds as the double does
roundedTotal(runs) ==
    IF thousandths(runs) % 10 # 5 THEN RoundDiv(thousandths(runs), 10)
    ELSE roundHundredths(sumDistance(runs, << >>))

\* Math.round(longestRunKm * 100), in units of 0.01 km, likewise
roundedLongest(runs) ==
    IF maxDistance(runs) % 10 # 5 THEN RoundDiv(maxDistance(runs), 10)
    ELSE roundHundredths(doubleOfDistance(maxDistance(runs)))

getWeeklyRunningStats(activities, weekStartDate) ==
    LET weekStart == getWeekStart(weekStartDate)
        weekEnd   == addDays(weekStart, 7)
        counted(a) == /\ isRunningActivity(a)
                      /\ a.date >= weekStart
                      /\ a.date < weekEnd
        runs == SelectSeq(activities, counted)
    IN  [totalDistanceKm |-> roundedTotal(runs),
         longestRunKm    |-> roundedLongest(runs),
         runCount        |-> Len(runs)]

(***************************************************************************)
(* The assemblers.  The result null is the record [isNull |-> TRUE].       *)
(* Inside calculateVolumeRecommendation and the long-run derivation the    *)
(* unrounded values are in units of 0.00001 km (Fine per 0.01 km); every   *)
(* returned volume is in units of 0.01 km.                                 *)
(***************************************************************************)
Null == [isNull |-> TRUE]
Fine == 10 * 100

\* Math.round(x * 10) / 10 of a value in units of 0.00001 km, in units of 0.01 km
round1(x) == 10 * RoundDiv(x, 10 * Fine)

\* totalWeeks, peakWeek and currentWeek as both assemblers derive them
\* mutation of totalWeeksOf: one week more than the weeks to the race week
totalWeeksOf_PlusTwo(weeksUntilRace) == weeksUntilRace + 2
totalWeeksOf(weeksUntilRace) == weeksUntilRace + 1
\* mutation of peakWeekOf: the peak week is not raised to week 1
peakWeekOf_NoFloor(totalWeeks) == totalWeeks - WEEKS_BEFORE_RACE_FOR_PEAK
peakWeekOf(totalWeeks) == Max(1, totalWeeks - WEEKS_BEFORE_RACE_FOR_PEAK)
\* mutation of currentWeekOf: the current week is the last week of the plan
currentWeekOf_LastWeek(totalWeeks, weeksUntilRace) == totalWeeks
currentWeekOf(totalWeeks, weeksUntilRace) == totalWeeks - weeksUntilRace

\* mutation of buildWeekVolume: the result is not raised to MIN_WEEKLY_VOLUME
buildWeekVolume_NoFloor(currentWeek, peakWeek, peakVolumeKm, baselineVolume) ==
    LET targetWithIncrease ==
            baselineVolume * (100 + MAX_VOLUME_INCREASE_RATIO) * (Fine \div 100)
        idealVolume ==
            Fine * calculateIdealWeekVolume(currentWeek, peakWeek,
                                            peakVolumeKm, MIN_WEEKLY_VOLUME)
        conservative == Min(targetWithIncrease, idealVolume)
    IN  Min(conservative, peakVolumeKm * Fine)

\* mutation of buildWeekVolume: the two clamps use the same bound, the
\* result is raised to peakVolumeKm
buildWeekVolume_FloorAtPeak(currentWeek, peakWeek, peakVolumeKm, baselineVolume) ==
    LET targetWithIncrease ==
            baselineVolume * (100 + MAX_VOLUME_INCREASE_RATIO) * (Fine \div 100)
        idealVolume ==
            Fine * calculateIdealWeekVolume(currentWeek, peakWeek,
                                            peakVolumeKm, MIN_WEEKLY_VOLUME)
        conservative == Min(targetWithIncrease, idealVolume)
        floored == Max(conservative, peakVolumeKm * Fine)
    IN  Min(floored, peakVolumeKm * Fine)

\* the build-up branch of calculateVolumeRecommendation, in units of
\* 0.00001 km
buildWeekVolume(currentWeek, peakWeek, peakVolumeKm, baselineVolume) ==
    LET targetWithIncrease ==
            baselineVolume * (100 + MAX_VOLUME_INCREASE_RATIO) * (Fine \div 100)
        idealVolume ==
            Fine * calculateIdealWeekVolume(currentWeek, peakWeek,
                                            peakVolumeKm, MIN_WEEKLY_VOLUME)
        conservative == Min(targetWithIncrease, idealVolume)
        floored == Max(conservative, MIN_WEEKLY_VOLUME * Fine)
    IN  Min(floored, peakVolumeKm * Fine)

\* the weekly volume of calculateVolumeRecommendation before its final
\* rounding, in units of 0.00001 km
recommendedVolume(currentWeek, peakWeek, peakVolumeKm, baselineVolume) ==
    IF currentWeek > peakWeek THEN
        LET weeksAfterPeak == currentWeek - peakWeek
        IN  IF weeksAfterPeak <= Len(TAPER_REDUCTIONS)
            THEN peakVolumeKm * (100 - TAPER_REDUCTIONS[weeksAfterPeak]) * (Fine \div 100)
            ELSE peakVolumeKm * (Fine \div 2)
    ELSE IF currentWeek = peakWeek THEN peakVolumeKm * Fine
    ELSE IF isCutbackWeek(currentWeek, peakWeek)
         THEN baselineVolume * 75 * (Fine \div 100)
    ELSE buildWeekVolume(currentWeek, peakWeek, peakVolumeKm, baselineVolume)

\* mutation of recommendedLongRun: last week's longest run does not limit
\* the long run
recommendedLongRun_NoLastWeekCap(currentWeek, peakWeek, peakLongRunKm, weeklyVolume, lastLongest) ==
    IF currentWeek = peakWeek THEN peakLongRunKm * Fine
    ELSE IF currentWeek > peakWeek THEN
        LET taperRatio == IF currentWeek - peakWeek = 1 THEN 60 ELSE 50
        IN  peakLongRunKm * taperRatio * (Fine \div 100)
    ELSE Min((weeklyVolume * LONG_RUN_WEEKLY_RATIO) \div 100, peakLongRunKm * Fine)

\* the long run of calculateVolumeRecommendation before its final rounding
recommendedLongRun(currentWeek, peakWeek, peakLongRunKm, weeklyVolume, lastLongest) ==
    IF currentWeek = peakWeek THEN peakLongRunKm * Fine
    ELSE IF currentWeek > peakWeek THEN
        LET taperRatio == IF currentWeek - peakWeek = 1 THEN 60 ELSE 50
        IN  peakLongRunKm * taperRatio * (Fine \div 100)
    ELSE LET byVolume == (weeklyVolume * LONG_RUN_WEEKLY_RATIO) \div 100
             capped   == IF lastLongest > 0
                         THEN Min(byVolume,
                                  lastLongest * (100 + MAX_VOLUME_INCREASE_RATIO)
                                  * (Fine \div 100))
                         ELSE byVolume
         IN  Min(capped, peakLongRunKm * Fine)

calculateVolumeRecommendation(now, raceGoalDistance, raceGoalDate, activities, raceTimeGoal) ==
    LET weeksUntilRace == getWeeksBetween(now, raceGoalDate)
    IN  IF weeksUntilRace < 0 THEN Null
        ELSE
        LET peakVolumeKm  == getPeakVolumeForLevel(raceGoalDistance, raceTimeGoal)
            peakLongRunKm == peakLongRunOf(raceGoalDistance)
            totalWeeks    == totalWeeksOf(weeksUntilRace)
            peakWeek      == peakWeekOf(totalWeeks)
            currentWeek   == currentWeekOf(totalWeeks, weeksUntilRace)
            lastWeekStats == getWeeklyRunningStats(activities, addDays(now, -7))
            baselineVolume == IF lastWeekStats.totalDistanceKm > 0
                              THEN lastWeekStats.totalDistanceKm
                              ELSE MIN_WEEKLY_VOLUME
            weeklyVolumeKm == recommendedVolume(currentWeek, peakWeek,
                                                peakVolumeKm, baselineVolume)
            longRunKm == recommendedLongRun(currentWeek, peakWeek, peakLongRunKm,
                                            weeklyVolumeKm,
                                            lastWeekStats.longestRunKm)
        IN  [isNull            |-> FALSE,
             weeklyVolumeKm    |-> round1(weeklyVolumeKm),
             longRunKm         |-> round1(longRunKm),
             weeksUntilRace    |-> weeksUntilRace,
             currentWeek       |-> currentWeek,
             totalWeeks        |-> totalWeeks,
             isCutbackWeek     |-> isCutbackWeek(currentWeek, peakWeek),
             isTaperWeek       |-> currentWeek > peakWeek,
             peakWeek          |-> peakWeek,
             lastWeekVolumeKm  |-> lastWeekStats.totalDistanceKm,
             lastWeekLongRunKm |-> lastWeekStats.longestRunKm,
             peakVolumeKm      |-> peakVolumeKm]

RECURSIVE decimalString(_)
\* String(n) for an integer n >= 0
decimalString(n) ==
    IF n < 10 THEN <<Digits[n + 1]>>
    ELSE decimalString(n \div 10) \o <<Digits[(n % 10) + 1]>>

\* one entry of the plan: the body of the loop of generateTrainingPlan
planEntry(now, week, totalWeeks, peakWeek, currentWeek, peakVolumeKm, peakLongRunKm, baseStartVolume) ==
    LET weekStart == getWeekStart(addDays(now, (week - currentWeek) * 7))
        weeklyVolumeKm == calculateIdealWeekVolume(week, peakWeek, peakVolumeKm,
                                                   baseStartVolume)
        longRunKm ==
            IF week = peakWeek THEN peakLongRunKm * Fine
            ELSE IF week > peakWeek THEN
                LET taperRatio == IF week - peakWeek = 1 THEN 60 ELSE 50
                IN  peakLongRunKm * taperRatio * (Fine \div 100)
            ELSE Min((weeklyVolumeKm * Fine * LONG_RUN_WEEKLY_RATIO) \div 100,
                     peakLongRunKm * Fine)
    IN  [weekNumber     |-> week,
         weekLabel      |-> IF week = totalWeeks THEN <<"R", "a", "c", "e">>
                            ELSE <<"W">> \o decimalString(week),
         weeklyVolumeKm |-> round1(weeklyVolumeKm * Fine),
         longRunKm      |-> round1(longRunKm),
         isCutbackWeek  |-> isCutbackWeek(week, peakWeek),
         isTaperWeek    |-> week > peakWeek,
         isPeakWeek     |-> week = peakWeek,
         isCurrentWeek  |-> week = currentWeek,
         weekStartDate  |-> weekStart]

\* mutation of displayStartWeekOf: the display start is raised to week 0 only
displayStartWeekOf_FloorAtZero(totalWeeks, weeksFromDisplayStartToRace) ==
    Max(0, totalWeeks - weeksFromDisplayStartToRace)

\* displayStartWeek of generateTrainingPlan
displayStartWeekOf(totalWeeks, weeksFromDisplayStartToRace) ==
    Max(1, totalWeeks - weeksFromDisplayStartToRace)

\* generateTrainingPlan; planStartDate is << >> when the argument is omitted
\* and <<date>> otherwise
generateTrainingPlan(now, raceGoalDistance, raceGoalDate, startingVolumeKm, planStartDate, raceTimeGoal) ==
    LET weeksUntilRace == getWeeksBetween(now, raceGoalDate)
    IN  IF weeksUntilRace < 0 THEN Null
        ELSE
        LET peakVolumeKm  == getPeakVolumeForLevel(raceGoalDistance, raceTimeGoal)
            peakLongRunKm == peakLongRunOf(raceGoalDistance)
            totalWeeks    == totalWeeksOf(weeksUntilRace)
            peakWeek      == peakWeekOf(totalWeeks)
            currentWeek   == currentWeekOf(totalWeeks, weeksUntilRace)
            displayStartDate == IF planStartDate = << >> THEN now
                                ELSE planStartDate[1]
            weeksFromDisplayStartToRace ==
                getWeeksBetween(displayStartDate, raceGoalDate)
            displayStartWeek ==
                displayStartWeekOf(totalWeeks, weeksFromDisplayStartToRace)
            baseStartVolume == Max(startingVolumeKm, MIN_WEEKLY_VOLUME)
        IN  [isNull |-> FALSE,
             plan   |-> [i \in 1..Max(0, totalWeeks - displayStartWeek + 1) |->
                           planEntry(now, displayStartWeek + i - 1, totalWeeks,
                                     peakWeek, currentWeek, peakVolumeKm,
                                     peakLongRunKm, baseStartVolume)]]

(***************************************************************************)
(* Date objects.  A Date is a mutable object: setDate and setHours change  *)
(* the object they are called on, and new Date(d) makes a new object with  *)
(* the value of d.  A store holds the values of the Date objects, a Date   *)
(* being its position in store.dates, and the list of activities; a        *)
(* function called on a store yields the store it leaves behind with the   *)
(* Date (ref) or the number (value) it returns.                            *)
(***************************************************************************)
\* new Date(d): the new object is the last of the store
newDate(store, d) == [store EXCEPT !.dates = Append(@, store.dates[d])]

\* d.setDate(d.getDate() + n)
setDate(store, d, n) == [store EXCEPT !.dates[d] = addDays(@, n)]

\* d.setHours(0, 0, 0, 0)
setHours(store, d) == [store EXCEPT !.dates[d] = atMidnight(@)]

\* mutation of getWeekStartOn: the argument is moved, not a copy of it
getWeekStartOn_InPlace(store, date) ==
    LET d    == date
        day  == getDay(store.dates[d])
        diff == IF day = 0 THEN -6 ELSE 1 - day
    IN  [store |-> setHours(setDate(store, d, diff), d), ref |-> d]

getWeekStartOn(store, date) ==
    LET copied == newDate(store, date)
        d      == Len(copied.dates)
        day    == getDay(copied.dates[d])
        diff   == IF day = 0 THEN -6 ELSE 1 - day
    IN  [store |-> setHours(setDate(copied, d, diff), d), ref |-> d]

getWeeksBetweenOn(store, startDate, endDate) ==
    LET startWeek == getWeekStartOn(store, startDate)
        endWeek   == getWeekStartOn(startWeek.store, endDate)
        dates     == endWeek.store.dates
    IN  [store |-> endWeek.store,
         value |-> (dates[endWeek.ref] - dates[startWeek.ref]) \div HoursPerWeek]

\* the loop makes a Date of the date of every running activity
getWeeklyRunningStatsOn(store, weekStartDate) ==
    LET weekStart == getWeekStartOn(store, weekStartDate)
        copied    == newDate(weekStart.store, weekStart.ref)
        weekEnd   == Len(copied.dates)
        moved     == setDate(copied, weekEnd, 7)
        running   == SelectSeq(moved.activities, isRunningActivity)
        looped    == [moved EXCEPT !.dates =
                         @ \o [i \in 1..Len(running) |-> running[i].date]]
        counted(a) == /\ isRunningActivity(a)
                      /\ a.date >= looped.dates[weekStart.ref]
                      /\ a.date < looped.dates[weekEnd]
        runs == SelectSeq(looped.activities, counted)
    IN  [store |-> looped,
         value |-> [totalDistanceKm |-> roundedTotal(runs),
                    longestRunKm    |-> roundedLongest(runs),
                    runCount        |-> Len(runs)]]

\* the Dates of calculateVolumeRecommendation; raceGoalDate is a Date
calculateVolumeRecommendationOn(store, now, raceGoalDate) ==
    LET weeksUntilRace == getWeeksBetweenOn(store, now, raceGoalDate)
    IN  IF weeksUntilRace.value < 0
        THEN [store |-> weeksUntilRace.store, isNull |-> TRUE]
        ELSE
        LET copied        == newDate(weeksUntilRace.store, now)
            lastWeekStart == Len(copied.dates)
            moved         == setDate(copied, lastWeekStart, -7)
            lastWeekStats == getWeeklyRunningStatsOn(moved, lastWeekStart)
        IN  [store |-> lastWeekStats.store, isNull |-> FALSE,
             weeksUntilRace |-> weeksUntilRace.value,
             lastWeekStats |-> lastWeekStats.value]

\* the loop of generateTrainingPlan from week on: the week starts it makes
RECURSIVE planWeeksOn(_, _, _, _, _)
planWeeksOn(store, now, week, totalWeeks, currentWeek) ==
    IF week > totalWeeks THEN [store |-> store, weekStarts |-> << >>]
    ELSE
    LET weeksFromCurrent == week - currentWeek
        copied        == newDate(store, now)
        weekStartDate == Len(copied.dates)
        moved         == setDate(copied, weekStartDate, weeksFromCurrent * 7)
        weekStart     == getWeekStartOn(moved, weekStartDate)
        rest          == planWeeksOn(weekStart.store, now, week + 1, totalWeeks,
                                     currentWeek)
    IN  [store |-> rest.store,
         weekStarts |-> <<weekStart.store.dates[weekStart.ref]>> \o rest.weekStarts]

\* the Dates of generateTrainingPlan; raceGoalDate is a Date and
\* planStartDate is << >> or <<a Date>>
generateTrainingPlanOn(store, now, raceGoalDate, planStartDate) ==
    LET weeksUntilRace == getWeeksBetweenOn(store, now, raceGoalDate)
    IN  IF weeksUntilRace.value < 0
        THEN [store |-> weeksUntilRace.store, isNull |-> TRUE]
        ELSE
        LET totalWeeks  == totalWeeksOf(weeksUntilRace.value)
            currentWeek == currentWeekOf(totalWeeks, weeksUntilRace.value)
            displayStartDate == IF planStartDate = << >> THEN now
                                ELSE planStartDate[1]
            weeksFromDisplayStartToRace ==
                getWeeksBetweenOn(weeksUntilRace.store, displayStartDate,
                                  raceGoalDate)
            displayStartWeek ==
                displayStartWeekOf(totalWeeks, weeksFromDisplayStartToRace.value)
            weeks == planWeeksOn(weeksFromDisplayStartToRace.store, now,
                                 displayStartWeek, totalWeeks, currentWeek)
        IN  [store |-> weeks.store, isNull |-> FALSE,
             weekStarts |-> weeks.weekStarts]

(***************************************************************************)
(* The environment and the calls.                                          *)
(***************************************************************************)
\* week of the daylight-saving transition (on its Sunday)
DstWeek == 4
\* week of the clock at the start, and the last week the clock advances to
TodayWeek == 2
LastTodayWeek == 3
\* race dates lie in weeks 0..MaxRaceWeek
MaxRaceWeek == 12
\* length of an activity list drawn from the pool
MaxActivities == 2

\* the instant 00:00 UTC of a day, as new Date('YYYY-MM-DD') yields it
dateOnly(week, dayOfWeek) == (7 * week + dayOfWeek) * HoursPerDay

TimeZones ==
    { [base |-> 0, shift |-> 0, at |-> 0],
      \* clocks go forward at 02:00 local time
      [base |-> -5, shift |-> 1, at |-> dateOnly(DstWeek, 6) + 2 + 5],
      \* clocks go back at 03:00 local time
      [base |-> 2, shift |-> -1, at |-> dateOnly(DstWeek, 6) + 3 - 2] }

\* local date and time of the clock at the start: Monday 00:00,
\* Wednesday 09:00, Sunday 23:00
LocalTodays ==
    { dateOnly(TodayWeek, 0), dateOnly(TodayWeek, 2) + 9, dateOnly(TodayWeek, 6) + 23 }

RaceDates == { dateOnly(w, d) : w \in 0..MaxRaceWeek, d \in {0, 6} }

TimeGoals ==
    { NoTimeGoal,
      << >>,
      <<"a", "b", "c">>,
      <<"3", ":", "3", "0">>,
      <<"3", ":", "3", "0", ":", "0", "0">>,
      <<"1", ":", "4", "0", ":", "0", "0">>,
      <<"0", ":", "5", "0", ":", "0", "0">>,
      <<"0", ":", "4", "0", ":", "0", "0">>,
      <<"0", ":", "4", "0", ":", "0", "0", "s">> }

ActivityPool ==
    { [type |-> "RoadRun", date |-> dateOnly(TodayWeek - 1, 2), distanceInKm |-> 5004],
      [type |-> "TreadmillRun", date |-> dateOnly(TodayWeek - 1, 0), distanceInKm |-> 12500],
      [type |-> "RoadRun", date |-> dateOnly(TodayWeek, 0), distanceInKm |-> 8000],
      [type |-> "RoadCycle", date |-> dateOnly(TodayWeek - 1, 2), distanceInKm |-> 40000],
      [type |-> "RoadRun", date |-> dateOnly(TodayWeek - 1, 6), distanceInKm |-> 120000],
      [type |-> "RoadRun", date |-> dateOnly(TodayWeek - 1, 4), distanceInKm |-> 2000] }

\* the lists of distinct activities of the pool, up to MaxActivities long
ActivityLists ==
    UNION { { l \in [1..n -> ActivityPool] : \A i, j \in 1..n : l[i] = l[j] => i = j }
            : n \in 0..MaxActivities }

\* three runs of the week before the clock, 46.045 km together
RunsOfLastWeek ==
    { [type |-> "RoadRun", date |-> dateOnly(TodayWeek - 1, 1), distanceInKm |-> 13793],
      [type |-> "RoadRun", date |-> dateOnly(TodayWeek - 1, 3), distanceInKm |-> 26090],
      [type |-> "TreadmillRun", date |-> dateOnly(TodayWeek - 1, 5), distanceInKm |-> 6162] }

\* the lists of those three runs, in every order
ReorderedLists ==
    { l \in [1..3 -> RunsOfLastWeek] : \A i, j \in 1..3 : l[i] = l[j] => i = j }

\* starting volumes, in units of 0.01 km
StartingVolumes == {0, 1000, 1234, 3000, 12000}

\* omitted, two weeks before the clock, one week after it
PlanStartDates == { << >>, <<addDays(today, -14)>>, <<addDays(today, 7)>> }

\* The inputs of a call.  At the Wednesday clock of the zone without
\* daylight saving a call is made with every time goal, activity list and
\* starting volume; at the other clocks and zones with a few of them.
WideInputs == tz.shift = 0 /\ today = dateOnly(TodayWeek, 2) + 9 - tz.base

CallTimeGoals ==
    IF WideInputs THEN TimeGoals
    ELSE { NoTimeGoal, <<"3", ":", "3", "0", ":", "0", "0">> }

CallActivityLists ==
    IF WideInputs THEN ActivityLists \cup ReorderedLists
    ELSE { l \in ActivityLists : l = << >> \/ (Len(l) = 2 /\ l[1].type = "RoadRun"
                                                /\ l[2].type = "TreadmillRun"
                                                /\ l[1].distanceInKm = 5004) }

CallStartingVolumes == IF WideInputs THEN StartingVolumes ELSE {1000, 12000}

Idle == [op |-> "idle"]

\* the store a call starts on: its Date arguments and its activities
argumentsOf(dates, activities) == [dates |-> dates, activities |-> activities]

\* the clock at the start: one of the local times, or the instant of a
\* date-only value (00:00 UTC of a Monday)
Todays == { fromLocalTime(t) : t \in LocalTodays } \cup { dateOnly(TodayWeek, 0) }

Init ==
    /\ tz \in TimeZones
    /\ today \in Todays
    /\ raceGoal \in RaceGoals
    /\ raceDate \in RaceDates
    /\ call = Idle

\* the clock advances by one week
Tick ==
    /\ call = Idle
    /\ localTime(today) \div HoursPerWeek < LastTodayWeek
    /\ today' = addDays(today, 7)
    /\ UNCHANGED <<tz, raceGoal, raceDate, call>>

\* TrainingSessionPage: calculateVolumeRecommendation(new Date(), ...)
Recommend ==
    /\ call = Idle
    /\ \E activities \in CallActivityLists, raceTimeGoal \in CallTimeGoals :
          call' = [op |-> "calculateVolumeRecommendation",
                   activities |-> activities,
                   raceTimeGoal |-> raceTimeGoal,
                   result |-> calculateVolumeRecommendation(
                                  today, raceGoal, raceDate, activities, raceTimeGoal),
                   arguments |-> argumentsOf(<<today, raceDate>>, activities),
                   objects |-> calculateVolumeRecommendationOn(
                                   argumentsOf(<<today, raceDate>>, activities), 1, 2)]
    /\ UNCHANGED <<tz, today, raceGoal, raceDate>>

\* VolumePlanPanel: generateTrainingPlan(new Date(), ...)
Plan ==
    /\ call = Idle
    /\ \E startingVolumeKm \in CallStartingVolumes, planStartDate \in PlanStartDates,
          raceTimeGoal \in CallTimeGoals :
          call' = [op |-> "generateTrainingPlan",
                   startingVolumeKm |-> startingVolumeKm,
                   planStartDate |-> planStartDate,
                   raceTimeGoal |-> raceTimeGoal,
                   result |-> generateTrainingPlan(
                                  today, raceGoal, raceDate, startingVolumeKm,
                                  planStartDate, raceTimeGoal),
                   arguments |-> argumentsOf(<<today, raceDate>> \o planStartDate, << >>),
                   objects |-> generateTrainingPlanOn(
                                   argumentsOf(<<today, raceDate>> \o planStartDate, << >>),
                                   1, 2, IF planStartDate = << >> THEN << >> ELSE <<3>>)]
    /\ UNCHANGED <<tz, today, raceGoal, raceDate>>

\* the caller has consumed the result
Return ==
    /\ call # Idle
    /\ call' = Idle
    /\ UNCHANGED <<tz, today, raceGoal, raceDate>>

Next == Tick \/ Recommend \/ Plan \/ Return

Spec == Init /\ [][Next]_vars

(***************************************************************************)
(* Direct calls of the exported functions.                                 *)
(***************************************************************************)
\* largest weekNumber and peakWeek of a direct call
MaxWeekNumber == 12
MaxPeakWeek == 10

\* the peak targets of the table, in units of 0.01 km
PeakVolumes ==
    { 100 * PEAK_VOLUMES_BY_LEVEL[g][l] : g \in RaceGoals, l \in RunnerLevels }

\* the clock on Wednesday 09:00, a race in the week before and a race six
\* weeks ahead
FunctionInit ==
    /\ tz \in TimeZones
    /\ today = fromLocalTime(dateOnly(TodayWeek, 2) + 9)
    /\ raceGoal \in RaceGoals
    /\ raceDate \in { dateOnly(TodayWeek - 1, 6), dateOnly(TodayWeek + 6, 6) }
    /\ call = Idle

IdealWeekVolume ==
    /\ call = Idle
    /\ \E weekNumber \in (-1)..MaxWeekNumber, peakWeek \in 1..MaxPeakWeek,
          peakVolumeKm \in PeakVolumes, startingVolumeKm \in StartingVolumes :
          call' = [op |-> "calculateIdealWeekVolume",
                   weekNumber |-> weekNumber,
                   peakWeek |-> peakWeek,
                   peakVolumeKm |-> peakVolumeKm,
                   startingVolumeKm |-> startingVolumeKm,
                   divisor |-> growthRateDivisor(weekNumber, peakWeek,
                                                 startingVolumeKm),
                   result |-> calculateIdealWeekVolume(
                                  weekNumber, peakWeek, peakVolumeKm,
                                  startingVolumeKm)]
    /\ UNCHANGED <<tz, today, raceGoal, raceDate>>

CutbackWeek ==
    /\ call = Idle
    /\ \E weekNumber \in (-MaxWeekNumber)..MaxWeekNumber,
          peakWeek \in (-MaxPeakWeek)..MaxPeakWeek :
          call' = [op |-> "isCutbackWeek",
                   weekNumber |-> weekNumber,
                   peakWeek |-> peakWeek,
                   result |-> isCutbackWeek(weekNumber, peakWeek)]
    /\ UNCHANGED <<tz, today, raceGoal, raceDate>>

\* n as two digits at least
pad2(n) == IF n < 10 THEN <<"0">> \o decimalString(n) ELSE decimalString(n)

\* the text H:MM:SS of a time
formatTime(h, m, s) ==
    decimalString(h) \o <<":">> \o pad2(m) \o <<":">> \o pad2(s)

GoalHours == 0..4
GoalMinutes == {0, 29, 30, 35, 44, 45, 54, 55, 59}
GoalSeconds == {0, 1, 59}

\* texts that are not a time H:MM:SS
MalformedTimeGoals ==
    { << >>,
      <<" ">>,
      <<"a", "b", "c">>,
      <<"3", ":", "3", "0">>,
      <<"1", ":", "2", ":", "3", ":", "4">>,
      <<"a", ":", "3", "0", ":", "0", "0">>,
      <<"0", ":", ":", "0", "0">>,
      <<"0", ":", "4", "0", ":", " ">>,
      <<"0", ":", "4", "0", ":", "s", "0">>,
      <<"0", ":", "4", "0", ":", "0", "0", "s">>,
      <<"0", ":", "4", "x", ":", "0", "0">> }

\* determineRunnerLevel for the text of a time
RunnerLevel ==
    /\ call = Idle
    /\ \E h \in GoalHours, m \in GoalMinutes, s \in GoalSeconds :
          call' = [op |-> "determineRunnerLevel",
                   time |-> <<h, m, s>>,
                   raceTimeGoal |-> formatTime(h, m, s),
                   result |-> determineRunnerLevel(raceGoal, formatTime(h, m, s))]
    /\ UNCHANGED <<tz, today, raceGoal, raceDate>>

\* determineRunnerLevel for null and for a text that is not a time
RunnerLevelMalformed ==
    /\ call = Idle
    /\ \E raceTimeGoal \in MalformedTimeGoals \cup {NoTimeGoal} :
          call' = [op |-> "determineRunnerLevel",
                   time |-> << >>,
                   raceTimeGoal |-> raceTimeGoal,
                   result |-> determineRunnerLevel(raceGoal, raceTimeGoal)]
    /\ UNCHANGED <<tz, today, raceGoal, raceDate>>

\* getWeeklyRunningStats for the week before the clock and the week of the clock
WeeklyStats ==
    /\ call = Idle
    /\ \E activities \in ActivityLists \cup ReorderedLists,
          weekStartDate \in {addDays(today, -7), today} :
          call' = [op |-> "getWeeklyRunningStats",
                   activities |-> activities,
                   weekStartDate |-> weekStartDate,
                   result |-> getWeeklyRunningStats(activities, weekStartDate),
                   arguments |-> argumentsOf(<<weekStartDate>>, activities),
                   objects |-> getWeeklyRunningStatsOn(
                                   argumentsOf(<<weekStartDate>>, activities), 1)]
    /\ UNCHANGED <<tz, today, raceGoal, raceDate>>

\* the weeks around the transition of the clocks
InstantWeeks == (DstWeek - 1)..(DstWeek + 1)

\* every hour of those weeks
Instants ==
    { dateOnly(w, d) + h : w \in InstantWeeks, d \in 0..6, h \in 0..(HoursPerDay - 1) }

\* hours early, in the middle and late on Monday, Thursday and Sunday
SparseInstants ==
    { dateOnly(w, d) + h : w \in InstantWeeks, d \in {0, 3, 6}, h \in {1, 6, 12, 22} }

\* getWeekStart for any date
WeekStart ==
    /\ call = Idle
    /\ \E date \in Instants :
          call' = [op |-> "getWeekStart",
                   date |-> date,
                   result |-> getWeekStart(date),
                   arguments |-> argumentsOf(<<date>>, << >>),
                   objects |-> getWeekStartOn(argumentsOf(<<date>>, << >>), 1)]
    /\ UNCHANGED <<tz, today, raceGoal, raceDate>>

\* getWeeksBetween for any two dates
WeeksBetween ==
    /\ call = Idle
    /\ \E startDate \in SparseInstants, endDate \in SparseInstants :
          call' = [op |-> "getWeeksBetween",
                   startDate |-> startDate,
                   endDate |-> endDate,
                   result |-> getWeeksBetween(startDate, endDate),
                   arguments |-> argumentsOf(<<startDate, endDate>>, << >>),
                   objects |-> getWeeksBetweenOn(
                                   argumentsOf(<<startDate, endDate>>, << >>), 1, 2)]
    /\ UNCHANGED <<tz, today, raceGoal, raceDate>>

FunctionNext ==
    \/ IdealWeekVolume
    \/ WeeklyStats
    \/ WeekStart
    \/ WeeksBetween
    \/ CutbackWeek
    \/ RunnerLevel
    \/ RunnerLevelMalformed
    \/ Recommend
    \/ Plan
    \/ Return

FunctionSpec == FunctionInit /\ [][FunctionNext]_vars

(***************************************************************************)
(* Properties.                                                             *)
(***************************************************************************)
IsRecommendation == call.op = "calculateVolumeRecommendation"
IsPlan == call.op = "generateTrainingPlan"
HasRecommendation == IsRecommendation /\ ~call.result.isNull
HasPlan == IsPlan /\ ~call.result.isNull

\* the race's week starts before the week of the clock
RaceWeekPassed == getWeekStart(raceDate) < getWeekStart(today)

\* the number of weeks from the clock to the race, and the peak week, two
\* weeks before race week but not before week 1
WeeksToRace == getWeeksBetween(today, raceDate)
ExpectedPeakWeek == IF WeeksToRace + 1 - 2 > 1 THEN WeeksToRace + 1 - 2 ELSE 1

\* the peak target of the call, from the table, in units of 0.01 km
ExpectedPeakVolume ==
    100 * PEAK_VOLUMES_BY_LEVEL[raceGoal][determineRunnerLevel(raceGoal, call.raceTimeGoal)]

\* 7.5, 15.8 and 31.6 km
ExpectedPeakLongRun ==
    CASE raceGoal = "10K" -> 750
      [] raceGoal = "HalfMarathon" -> 1580
      [] raceGoal = "FullMarathon" -> 3160

C2_PeakWeekExact ==
    (HasPlan /\ Len(call.result.plan) > 0
        /\ call.result.plan[1].weekNumber <= ExpectedPeakWeek) =>
        LET plan  == call.result.plan
            peaks == {i \in 1..Len(plan) : plan[i].isPeakWeek}
        IN  /\ Cardinality(peaks) = 1
            /\ \A i \in peaks :
                  /\ plan[i].weekNumber = ExpectedPeakWeek
                  /\ plan[i].weeklyVolumeKm = ExpectedPeakVolume
                  /\ plan[i].longRunKm = ExpectedPeakLongRun

\* a plan with build weeks before its peak week, started above the peak target
C2_Witness ==
    /\ HasPlan
    /\ call.startingVolumeKm > ExpectedPeakVolume
    /\ \E i \in 1..Len(call.result.plan) :
          call.result.plan[i].isPeakWeek /\ call.result.plan[i].weekNumber >= 5

\* the start of the curve of a plan: max(startingVolumeKm, MIN_WEEKLY_VOLUME)
PlanBaseVolume ==
    IF call.startingVolumeKm > 1000 THEN call.startingVolumeKm ELSE 1000

\* the growth rate solved for the plan of the call exceeds 10 %
PlanIsCapped ==
    /\ HasPlan
    /\ ExpectedPeakWeek >= 2
    /\ growthIsCapped(ExpectedPeakVolume, PlanBaseVolume,
                      progressionWeeks(ExpectedPeakWeek))

\* entries i < j are successive build weeks: both before the peak week,
\* neither a cutback week, and only cutback weeks between them
SuccessiveBuildWeeks(plan, i, j) ==
    /\ i < j
    /\ plan[j].weekNumber < ExpectedPeakWeek
    /\ ~plan[i].isCutbackWeek
    /\ ~plan[j].isCutbackWeek
    /\ \A k \in (i + 1)..(j - 1) : plan[k].isCutbackWeek

\* C3 as stated: under the 10 % cap no step between successive build weeks
\* of the emitted plan exceeds 10 %.
C3_Original ==
    PlanIsCapped =>
        LET plan == call.result.plan
        IN  \A i, j \in 1..Len(plan) :
                SuccessiveBuildWeeks(plan, i, j) =>
                    100 * plan[j].weeklyVolumeKm <= 110 * plan[i].weeklyVolumeKm

\* C3: under the 10 % cap every step between successive build weeks of the
\* emitted plan is at most 10 % plus 0.1 km, the slack of rounding both
\* volumes to one decimal.
C3_GrowthCapUpToRounding ==
    PlanIsCapped =>
        LET plan == call.result.plan
        IN  \A i, j \in 1..Len(plan) :
                SuccessiveBuildWeeks(plan, i, j) =>
                    100 * plan[j].weeklyVolumeKm
                        <= 110 * plan[i].weeklyVolumeKm + 100 * 10

\* a capped plan with a step across a cutback week that rounding lifts over 10 %
C3_Witness ==
    /\ PlanIsCapped
    /\ \E i, j \in 1..Len(call.result.plan) :
          /\ SuccessiveBuildWeeks(call.result.plan, i, j)
          /\ 100 * call.result.plan[j].weeklyVolumeKm
                > 110 * call.result.plan[i].weeklyVolumeKm
    /\ \E i, j \in 1..Len(call.result.plan) :
          /\ SuccessiveBuildWeeks(call.result.plan, i, j)
          /\ j = i + 2

\* Math.round(x * 10) / 10 of pct percent of a volume v in units of 0.01 km
PercentRounded(v, pct) == 10 * ((2 * v * pct + 1000) \div 2000)

\* C4 as stated: in the week before the race and in race week the
\* recommendation is a taper week, with 75 % and then 60 % of the peak
\* volume, strictly below the peak volume.
C4_Original ==
    (HasRecommendation /\ WeeksToRace \in {0, 1}) =>
        /\ call.result.isTaperWeek
        /\ call.result.weeklyVolumeKm =
              PercentRounded(ExpectedPeakVolume, IF WeeksToRace = 1 THEN 75 ELSE 60)
        /\ call.result.weeklyVolumeKm < ExpectedPeakVolume

\* the recommendation computed k weeks after the clock, other inputs as in the call
RecommendationAfter(k) ==
    calculateVolumeRecommendation(addDays(today, 7 * k), raceGoal, raceDate,
                                  call.activities, call.raceTimeGoal)

\* C5 as stated: with the race at least 8 weeks away, among the
\* recommendations of 4 consecutive weeks before the peak week one is a
\* cutback week, with 75 % of the baseline as its volume.
C5_Original ==
    (HasRecommendation /\ WeeksToRace >= 8) =>
        \E k \in 0..3 :
            LET r == RecommendationAfter(k)
                baseline == IF r.lastWeekVolumeKm > 0 THEN r.lastWeekVolumeKm
                            ELSE 1000
            IN  /\ r.isCutbackWeek
                /\ r.weeklyVolumeKm = PercentRounded(baseline, 75)

\* C6: every recommendation has 10 km <= weeklyVolumeKm <= peakVolumeKm,
\* the peak target of the table, and both volumes are defined numbers,
\* whatever the activity history.
C6_RecommendationBounds ==
    HasRecommendation =>
        /\ call.result.weeklyVolumeKm \in Nat
        /\ call.result.longRunKm \in Nat
        /\ call.result.peakVolumeKm = ExpectedPeakVolume
        /\ 1000 <= call.result.weeklyVolumeKm
        /\ call.result.weeklyVolumeKm <= ExpectedPeakVolume

\* a build-week recommendation after a week with less than 10 km of running
C6_Witness ==
    /\ HasRecommendation
    /\ call.result.currentWeek < call.result.peakWeek
    /\ call.result.lastWeekVolumeKm > 0
    /\ call.result.lastWeekVolumeKm < 900
    /\ call.result.weeklyVolumeKm = 1000

\* the recommendation of the call is for a build week after a week with running
BuildWeekAfterRunning ==
    /\ HasRecommendation
    /\ call.result.currentWeek < call.result.peakWeek
    /\ ~call.result.isCutbackWeek
    /\ call.result.lastWeekVolumeKm > 0

\* C7 as stated: in a build week after a week with running total L the
\* recommended volume never exceeds L x 1.10.
C7_Original ==
    BuildWeekAfterRunning =>
        call.result.weeklyVolumeKm <= PercentRounded(call.result.lastWeekVolumeKm, 110)

\* C7: in a build week after a week with running total L the recommended
\* volume never exceeds the larger of L x 1.10 and the 10 km minimum.
C7_GrowthCapOrMinimum ==
    BuildWeekAfterRunning =>
        \/ call.result.weeklyVolumeKm <= PercentRounded(call.result.lastWeekVolumeKm, 110)
        \/ call.result.weeklyVolumeKm <= 1000

\* a build week in which the 10 km minimum lifts the volume over L x 1.10
C7_Witness ==
    /\ BuildWeekAfterRunning
    /\ PercentRounded(call.result.lastWeekVolumeKm, 110) < 1000
    /\ call.result.weeklyVolumeKm = 1000

\* C8 as stated: in a plan that contains the peak week no entry has a
\* larger volume than the peak-week entry.
C8_Original ==
    HasPlan =>
        LET plan == call.result.plan
        IN  \A p \in 1..Len(plan) :
                plan[p].isPeakWeek =>
                    \A i \in 1..Len(plan) :
                        plan[i].weeklyVolumeKm <= plan[p].weeklyVolumeKm

\* C9 as stated: a plan generated from today ends in a taper: its last
\* entry is race week, a taper week and not the peak week; there are one or
\* two taper entries, they are the last entries, with 75 % of the peak
\* volume one week after the peak and 60 % two weeks after it.
C9_Original ==
    (HasPlan /\ call.planStartDate = << >>) =>
        LET plan   == call.result.plan
            n      == Len(plan)
            tapers == {i \in 1..n : plan[i].isTaperWeek}
        IN  /\ n >= 1
            /\ plan[n].weekLabel = <<"R", "a", "c", "e">>
            /\ plan[n].isTaperWeek
            /\ ~plan[n].isPeakWeek
            /\ Cardinality(tapers) \in {1, 2}
            /\ \A i \in tapers : i > n - Cardinality(tapers)
            /\ \A i \in tapers :
                  plan[i].weeklyVolumeKm =
                      PercentRounded(ExpectedPeakVolume,
                          IF plan[i].weekNumber = ExpectedPeakWeek + 1 THEN 75 ELSE 60)

\* the local calendar day of an instant
CalendarDay(t) == localTime(t) \div 24

\* C10 as stated: whenever the race date is a calendar day before today,
\* both assemblers return null.
C10_Original ==
    ((IsRecommendation \/ IsPlan) /\ CalendarDay(raceDate) < CalendarDay(today)) =>
        call.result.isNull

\* the display start of the call: planStartDate || today
DisplayStartDate ==
    IF call.planStartDate = << >> THEN today ELSE call.planStartDate[1]

\* the first week a plan shows: the week of the display start counted from
\* the week of the clock as week 1, but not before week 1
ExpectedDisplayStartWeek ==
    LET raw == (WeeksToRace + 1) - getWeeksBetween(DisplayStartDate, raceDate)
    IN  IF raw > 1 THEN raw ELSE 1

RaceLabel == <<"R", "a", "c", "e">>

\* C11: a plan has one entry for every week from displayStartWeek to
\* totalWeeks, in consecutive increasing order (none when displayStartWeek
\* is after totalWeeks); without planStartDate the weeks are
\* 1..weeksUntilRace+1 and the plan is not empty; the entry of week
\* totalWeeks is the only one labelled 'Race', every other entry is
\* labelled 'W<weekNumber>'.
C11_PlanEnumeration ==
    HasPlan =>
        LET plan  == call.result.plan
            total == WeeksToRace + 1
            first == ExpectedDisplayStartWeek
            n     == IF total - first + 1 > 0 THEN total - first + 1 ELSE 0
        IN  /\ Len(plan) = n
            /\ \A i \in 1..Len(plan) : plan[i].weekNumber = first + i - 1
            /\ call.planStartDate = << >> =>
                  /\ Len(plan) = WeeksToRace + 1
                  /\ Len(plan) >= 1
                  /\ plan[1].weekNumber = 1
            /\ \A i \in 1..Len(plan) :
                  /\ plan[i].weekLabel = RaceLabel <=> plan[i].weekNumber = total
                  /\ plan[i].weekNumber # total =>
                        plan[i].weekLabel = <<"W">> \o decimalString(plan[i].weekNumber)
            /\ Cardinality({i \in 1..Len(plan) : plan[i].weekLabel = RaceLabel})
                  = (IF n > 0 THEN 1 ELSE 0)

\* a plan displayed from the week after the clock, with two-digit week labels
C11_Witness ==
    /\ HasPlan
    /\ call.planStartDate # << >>
    /\ Len(call.result.plan) >= 9
    /\ call.result.plan[1].weekNumber = 2
    /\ call.result.plan[1].weekLabel = <<"W", "2">>
    /\ call.result.plan[Len(call.result.plan)].weekLabel = RaceLabel
    /\ \E i \in 1..Len(call.result.plan) :
          call.result.plan[i].weekLabel = <<"W", "1", "0">>

\* the plan of the call without its planStartDate
PlanFromToday ==
    generateTrainingPlan(today, raceGoal, raceDate, call.startingVolumeKm,
                         << >>, call.raceTimeGoal)

\* the number of weeks from the week of planStartDate to the week of the clock
WeeksDisplayedBeforeToday == getWeeksBetween(DisplayStartDate, today)

\* C12 as stated: a planStartDate k >= 1 weeks before the week of today
\* makes the plan start at the week of planStartDate, with k more entries
\* than the plan without planStartDate.
C12_Original ==
    (HasPlan /\ call.planStartDate # << >> /\ WeeksDisplayedBeforeToday >= 1) =>
        LET plan == call.result.plan
        IN  /\ Len(plan) = Len(PlanFromToday.plan) + WeeksDisplayedBeforeToday
            /\ plan[1].weekStartDate = getWeekStart(call.planStartDate[1])

IsIdealWeekVolume == call.op = "calculateIdealWeekVolume"
IsCutbackWeekCall == call.op = "isCutbackWeek"

\* a direct call of calculateIdealWeekVolume for week k after the peak week
TaperCall(k) == IsIdealWeekVolume /\ call.weekNumber = call.peakWeek + k

\* C13 as stated: the week after the peak week returns exactly 0.75 of the
\* peak volume, the second week after it exactly 0.60, every later week
\* exactly 0.5.
C13_Original ==
    /\ TaperCall(1) => 100 * call.result = 75 * call.peakVolumeKm
    /\ TaperCall(2) => 100 * call.result = 60 * call.peakVolumeKm
    /\ (IsIdealWeekVolume /\ call.weekNumber > call.peakWeek + 2) =>
          2 * call.result = call.peakVolumeKm

\* C13: the week after the peak week returns 0.75 of the peak volume
\* rounded to one decimal, the second week after it 0.60 rounded to one
\* decimal, every later week exactly 0.5 of it; the starting volume has no
\* influence.
C13_TaperShapeRounded ==
    (IsIdealWeekVolume /\ call.weekNumber > call.peakWeek) =>
        /\ TaperCall(1) => call.result = PercentRounded(call.peakVolumeKm, 75)
        /\ TaperCall(2) => call.result = PercentRounded(call.peakVolumeKm, 60)
        /\ call.weekNumber > call.peakWeek + 2 =>
              2 * call.result = call.peakVolumeKm
        /\ \A s \in StartingVolumes :
              calculateIdealWeekVolume(call.weekNumber, call.peakWeek,
                                       call.peakVolumeKm, s) = call.result

\* the week after the peak of 35 km: 26.25 km is returned as 26.3 km
C13_Witness ==
    /\ TaperCall(1)
    /\ call.peakWeek = 10
    /\ call.peakVolumeKm = 3500
    /\ call.result = 2630

\* C14: isCutbackWeek(weekNumber, peakWeek) is true exactly when
\* 0 < weekNumber < peakWeek and weekNumber is a multiple of 4; the peak
\* week and the weeks after it are never cutback weeks.
C14_CutbackCadence ==
    IsCutbackWeekCall =>
        /\ call.result \in BOOLEAN
        /\ call.result <=>
              /\ 0 < call.weekNumber
              /\ call.weekNumber < call.peakWeek
              /\ \E q \in 1..MaxWeekNumber : call.weekNumber = 4 * q
        /\ call.weekNumber >= call.peakWeek => ~call.result

\* week 8 before a later peak week is a cutback week
C14_Witness ==
    /\ IsCutbackWeekCall
    /\ call.weekNumber = 8
    /\ call.peakWeek = 10
    /\ call.result

IsRunnerLevel == call.op = "determineRunnerLevel"

\* the thresholds (beginnerMax, intermediateMax) of the levels, in minutes
ClaimedThresholds ==
    [g \in RaceGoals |->
        CASE g = "10K" -> <<55, 45>>
          [] g = "HalfMarathon" -> <<120, 95>>
          [] g = "FullMarathon" -> <<270, 210>>]

HasTimeGoal == IsRunnerLevel \/ IsRecommendation \/ IsPlan

\* the number of ':'-separated segments of a text
SegmentCount(str) == 1 + Cardinality({i \in 1..Len(str) : str[i] = ":"})

\* the segments of a text with three segments
Segments(str) ==
    LET colons == {i \in 1..Len(str) : str[i] = ":"}
        c1 == CHOOSE i \in colons : \A j \in colons : i <= j
        c2 == CHOOSE i \in colons : \A j \in colons : i >= j
    IN  <<SubSeq(str, 1, c1 - 1), SubSeq(str, c1 + 1, c2 - 1),
          SubSeq(str, c2 + 1, Len(str))>>

\* a segment is a number: one or more decimal digits
AllDigits(seg) == seg # << >> /\ \A i \in 1..Len(seg) : isDigit(seg[i])

\* a segment begins with a number: blanks, an optional sign, then a digit
BeginsWithNumber(seg) ==
    \E i \in 1..Len(seg) :
        /\ isDigit(seg[i])
        /\ \/ \A j \in 1..(i - 1) : seg[j] = " "
           \/ /\ seg[i - 1] \in {"+", "-"}
              /\ \A j \in 1..(i - 2) : seg[j] = " "

\* a time goal is absent, empty or malformed: its segment count is not 3 or
\* one of its segments is not a number
Malformed(goal) ==
    \/ goal = NoTimeGoal
    \/ goal = << >>
    \/ SegmentCount(goal) # 3
    \/ \E i \in 1..3 : ~AllDigits(Segments(goal)[i])

\* a time goal is absent, empty, has a segment count other than 3 or a
\* segment that does not begin with a number
Unparseable(goal) ==
    \/ goal = NoTimeGoal
    \/ goal = << >>
    \/ SegmentCount(goal) # 3
    \/ \E i \in 1..3 : ~BeginsWithNumber(Segments(goal)[i])

\* the call resolves its time goal to the beginner level: determineRunnerLevel
\* returns beginner, an assembler returns a result for a race that is not
\* past, built on the beginner peak volume of the race goal
ResolvedToBeginner ==
    /\ IsRunnerLevel => call.result = "beginner"
    /\ (IsRecommendation \/ IsPlan) => (call.result.isNull <=> RaceWeekPassed)
    /\ HasRecommendation =>
          call.result.peakVolumeKm = 100 * PEAK_VOLUMES_BY_LEVEL[raceGoal].beginner
    /\ HasPlan =>
          \A i \in 1..Len(call.result.plan) :
              call.result.plan[i].isPeakWeek =>
                  call.result.plan[i].weeklyVolumeKm
                      = 100 * PEAK_VOLUMES_BY_LEVEL[raceGoal].beginner

RecommendationOfCall ==
    calculateVolumeRecommendation(today, raceGoal, raceDate, << >>,
                                  call.raceTimeGoal)

\* the week-index derivation: totalWeeks = weeksUntilRace + 1 and
\* peakWeek = max(1, totalWeeks - 2)
DerivedWeeks(weeksUntilRace, totalWeeks, peakWeek) ==
    /\ totalWeeks = weeksUntilRace + 1
    /\ peakWeek = (IF totalWeeks - 2 > 1 THEN totalWeeks - 2 ELSE 1)

\* C17 as stated: for a race that is not past both assemblers derive
\* totalWeeks = weeksUntilRace + 1 and peakWeek = max(1, totalWeeks - 2) and
\* agree on totalWeeks, peakWeek and peakVolumeKm; a race exactly n weeks
\* after today gives totalWeeks = n + 1 and peakWeek = max(1, n - 1);
\* FullMarathon with the time goal 3:30:00 gives peakVolumeKm = 85.
C17_Original ==
    /\ HasRecommendation =>
          LET r == call.result
          IN  /\ DerivedWeeks(r.weeksUntilRace, r.totalWeeks, r.peakWeek)
              /\ (raceDate - today) % HoursPerWeek = 0 =>
                    DerivedWeeks((raceDate - today) \div HoursPerWeek,
                                 r.totalWeeks, r.peakWeek)
              /\ (raceGoal = "FullMarathon" /\ call.raceTimeGoal
                        = <<"3", ":", "3", "0", ":", "0", "0">>) =>
                    r.peakVolumeKm = 8500
    /\ (HasPlan /\ call.planStartDate = << >>) =>
          LET plan == call.result.plan
              r    == RecommendationOfCall
          IN  /\ ~r.isNull
              /\ plan[Len(plan)].weekNumber = r.totalWeeks
              /\ \A i \in 1..Len(plan) :
                    /\ plan[i].isPeakWeek <=> plan[i].weekNumber = r.peakWeek
                    /\ plan[i].isPeakWeek =>
                          plan[i].weeklyVolumeKm = r.peakVolumeKm
              /\ (raceDate - today) % HoursPerWeek = 0 =>
                    plan[Len(plan)].weekNumber
                        = (raceDate - today) \div HoursPerWeek + 1

IsWeeklyStats == call.op = "getWeeklyRunningStats"

\* the activity is a road or treadmill run dated in the week of date: from
\* its Monday 00:00 up to, not including, Monday 00:00 seven days later
RunInWeek(a, date) ==
    /\ a.type \in {"RoadRun", "TreadmillRun"}
    /\ getWeekStart(date) <= a.date
    /\ a.date < addDays(getWeekStart(date), 7)

RECURSIVE TotalDistance(_, _)
\* the sum of the distances of the activities at the indices idx
TotalDistance(acts, idx) ==
    IF idx = {} THEN 0
    ELSE LET i == CHOOSE j \in idx : TRUE
         IN  acts[i].distanceInKm + TotalDistance(acts, idx \ {i})

\* the largest distance of the activities at the indices idx, 0 for none
LongestDistance(acts, idx) ==
    IF idx = {} THEN 0
    ELSE LET i == CHOOSE j \in idx :
                      \A k \in idx : acts[k].distanceInKm <= acts[j].distanceInKm
         IN  acts[i].distanceInKm

\* the indices of the runs of the call that lie in the week of the call
RunsOfCall ==
    {i \in 1..Len(call.activities) :
        RunInWeek(call.activities[i], call.weekStartDate)}

\* C18 as stated: runCount is the number of runs dated in the week,
\* totalDistanceKm the sum of their distances and longestRunKm the largest
\* of them.
C18_Original ==
    IsWeeklyStats =>
        /\ call.result.runCount = Cardinality(RunsOfCall)
        /\ 10 * call.result.totalDistanceKm
              = TotalDistance(call.activities, RunsOfCall)
        /\ 10 * call.result.longestRunKm
              = LongestDistance(call.activities, RunsOfCall)

\* C18: runCount is the number of road and treadmill runs dated in
\* [weekStart, weekStart + 7 days), totalDistanceKm the sum of their
\* distances rounded to two decimals and longestRunKm the largest of them
\* rounded to two decimals (a value halfway between two hundredths goes to
\* either of them, the sum being a floating-point sum); other activities
\* count for nothing, no run in the week gives 0, 0, 0, and
\* longestRunKm <= totalDistanceKm.
C18_WeeklyStatsRounded ==
    IsWeeklyStats =>
        /\ call.result.runCount = Cardinality(RunsOfCall)
        /\ 10 * call.result.totalDistanceKm
               - TotalDistance(call.activities, RunsOfCall) \in (-5)..5
        /\ 10 * call.result.longestRunKm
               - LongestDistance(call.activities, RunsOfCall) \in (-5)..5
        /\ RunsOfCall = {} =>
              call.result = [totalDistanceKm |-> 0, longestRunKm |-> 0,
                             runCount |-> 0]
        /\ call.result.longestRunKm <= call.result.totalDistanceKm

\* the week before the clock with a treadmill run in it and a run dated
\* exactly at its end: one run of 12.5 km
C18_Witness ==
    /\ IsWeeklyStats
    /\ Len(call.activities) = 2
    /\ call.weekStartDate = addDays(today, -7)
    /\ \E i \in 1..2 :
          /\ call.activities[i].type = "RoadRun"
          /\ call.activities[i].date = addDays(getWeekStart(call.weekStartDate), 7)
    /\ \E i \in 1..2 : call.activities[i].type = "TreadmillRun"
    /\ call.result = [totalDistanceKm |-> 1250, longestRunKm |-> 1250,
                       runCount |-> 1]

\* the smaller of two numbers
Smaller(a, b) == IF a <= b THEN a ELSE b

C20_Original ==
    /\ IsIdealWeekVolume => call.divisor # <<0>>
    /\ HasRecommendation =>
          growthRateDivisor(call.result.currentWeek, call.result.peakWeek,
                            MIN_WEEKLY_VOLUME) # <<0>>
    /\ HasPlan =>
          \A i \in 1..Len(call.result.plan) :
              growthRateDivisor(call.result.plan[i].weekNumber, ExpectedPeakWeek,
                                Max(call.startingVolumeKm, MIN_WEEKLY_VOLUME)) # <<0>>

IsWeekStart == call.op = "getWeekStart"

\* C21: for every date d, getWeekStart(d) is a Monday at 00:00:00 local time
\* with getWeekStart(d) <= d < getWeekStart(d) + 7 calendar days; a Sunday
\* maps to the Monday six days earlier; and getWeekStart is idempotent
C21_WeekStart ==
    IsWeekStart =>
        /\ getDay(call.result) = 1
        /\ localTime(call.result) % HoursPerDay = 0
        /\ call.result <= call.date
        /\ call.date < addDays(call.result, 7)
        /\ CalendarDay(call.date) - CalendarDay(call.result) = (getDay(call.date) + 6) % 7
        /\ getWeekStart(call.result) = call.result

\* a Sunday after the clocks have changed, in a zone that changes them
C21_Witness ==
    /\ IsWeekStart
    /\ tz.shift # 0
    /\ getDay(call.date) = 0
    /\ call.date >= tz.at
    /\ call.result < tz.at
    /\ CalendarDay(call.date) - CalendarDay(call.result) = 6

IsWeeksBetween == call.op = "getWeeksBetween"

\* a and b lie in the same Monday-Sunday week
SameWeek(a, b) == getWeekStart(a) = getWeekStart(b)

\* the number of calendar weeks from the week of a to the week of b
CalendarWeeks(a, b) == (CalendarDay(getWeekStart(b)) - CalendarDay(getWeekStart(a))) \div 7

\* C22 as stated: getWeeksBetween(a, b) is the whole number of weeks between
\* the two week starts; it is 0 iff a and b fall in the same week, negative
\* iff the week of b precedes the week of a, antisymmetric and additive
C22_Original ==
    IsWeeksBetween =>
        LET a == call.startDate
            b == call.endDate
        IN  /\ call.result = CalendarWeeks(a, b)
            /\ (call.result = 0) <=> SameWeek(a, b)
            /\ (call.result < 0) <=> (getWeekStart(b) < getWeekStart(a))
            /\ call.result = -getWeeksBetween(b, a)
            /\ \A c \in SparseInstants :
                   getWeeksBetween(a, c) = call.result + getWeeksBetween(b, c)

\* the call is one of the five functions that take Dates
TakesDates ==
    call.op \in { "getWeekStart", "getWeeksBetween", "getWeeklyRunningStats",
                  "calculateVolumeRecommendation", "generateTrainingPlan" }

\* the Date arguments and the activities are, after the call, what they were
ArgumentsKept ==
    /\ SubSeq(call.objects.store.dates, 1, Len(call.arguments.dates))
           = call.arguments.dates
    /\ call.objects.store.activities = call.arguments.activities

\* what the call returns is what the function of values returns
ObjectsAgree ==
    CASE call.op = "getWeekStart" ->
             call.objects.store.dates[call.objects.ref] = call.result
      [] call.op \in {"getWeeksBetween", "getWeeklyRunningStats"} ->
             call.objects.value = call.result
      [] call.op = "calculateVolumeRecommendation" ->
             /\ call.objects.isNull = call.result.isNull
             /\ ~call.result.isNull =>
                    /\ call.objects.weeksUntilRace = call.result.weeksUntilRace
                    /\ call.objects.lastWeekStats.totalDistanceKm
                           = call.result.lastWeekVolumeKm
      [] call.op = "generateTrainingPlan" ->
             /\ call.objects.isNull = call.result.isNull
             /\ ~call.result.isNull =>
                    call.objects.weekStarts =
                        [i \in 1..Len(call.result.plan) |->
                            call.result.plan[i].weekStartDate]

\* C23: getWeekStart, getWeeksBetween, getWeeklyRunningStats,
\* calculateVolumeRecommendation and generateTrainingPlan leave every
\* argument unchanged: the Date arguments keep their value, and the
\* activities list and every activity in it are as they were
C23_ArgumentsReadOnly ==
    TakesDates => ArgumentsKept /\ ObjectsAgree

\* a plan of several weeks for a clock on Wednesday: the Dates the call made
\* were moved away from the value of today they were copied from
C23_Witness ==
    /\ HasPlan
    /\ Len(call.result.plan) >= 3
    /\ call.arguments.dates[1] = today
    /\ getDay(today) = 3
    /\ \A i \in (Len(call.arguments.dates) + 1)..Len(call.objects.store.dates) :
           call.objects.store.dates[i] # today

\* the call is for a cutback week c: c mod 4 = 0 and 0 < c < peakWeek
CutbackCall ==
    /\ IsIdealWeekVolume
    /\ call.weekNumber > 0
    /\ call.weekNumber % 4 = 0
    /\ call.weekNumber < call.peakWeek

\* round1(startingVolumeKm x (1 + cappedRate)^count x num / den) for the
\* arguments of the call
CurveOfCall(count, num, den) ==
    LET n == (call.peakWeek - 1) - ((call.peakWeek - 1) \div 4)
    IN  IF growthIsCapped(call.peakVolumeKm, call.startingVolumeKm, n)
        THEN cappedCurve(call.startingVolumeKm, count, num, den)
        ELSE uncappedCurve(call.peakVolumeKm, call.startingVolumeKm, n, count,
                           num, den)

\* the weeks of 2..(c - 1) that are not a multiple of 4
WeeksGrownBefore(c) == (c - 2) - ((c \div 4) - 1)

IdealOfCall(w) ==
    calculateIdealWeekVolume(w, call.peakWeek, call.peakVolumeKm,
                             call.startingVolumeKm)

\* C24: for every cutback week c the ideal volume is round1(0.75 x U(c-1)),
\* U(w) = startingVolumeKm x (1 + cappedRate)^progressionCount(w) being the
\* unrounded curve; the cutback does not advance the compounding index,
\* progressionCount(c) = progressionCount(c-1), and when c+1 < peakWeek the
\* curve goes on from U(c-1): U(c+1) = (1 + cappedRate) x U(c-1)
C24_CutbackInCurve ==
    CutbackCall =>
        LET c == call.weekNumber
            k == WeeksGrownBefore(c)
        IN  /\ progressionCount(c - 1, call.peakWeek) = k
            /\ progressionCount(c, call.peakWeek) = k
            /\ call.result = CurveOfCall(k, 3, 4)
            /\ IdealOfCall(c - 1) = CurveOfCall(k, 1, 1)
            \* 75% of the week before, both values rounded to 0.1 km
            /\ 4 * call.result - 3 * IdealOfCall(c - 1) \in (-35)..35
            /\ c + 1 < call.peakWeek =>
                   /\ progressionCount(c + 1, call.peakWeek) = k + 1
                   /\ IdealOfCall(c + 1) = CurveOfCall(k + 1, 1, 1)

\* the second cutback week of a curve that grows without the cap, with a
\* build-up week after it
C24_Witness ==
    /\ CutbackCall
    /\ call.weekNumber = 8
    /\ call.weekNumber + 1 < call.peakWeek
    /\ ~growthIsCapped(call.peakVolumeKm, call.startingVolumeKm,
                       progressionWeeks(call.peakWeek))
    /\ call.startingVolumeKm < call.peakVolumeKm
    /\ call.result < IdealOfCall(call.weekNumber - 1)
    /\ IdealOfCall(call.weekNumber - 1) < IdealOfCall(call.weekNumber + 1)

PlanDatesFromToday ==
    LET plan == call.result.plan
    IN  /\ \A i \in 1..Len(plan) :
               /\ plan[i].weekStartDate
                      = addDays(getWeekStart(today), 7 * (plan[i].weekNumber - 1))
               /\ getDay(plan[i].weekStartDate) = 1
               /\ localTime(plan[i].weekStartDate) % HoursPerDay = 0
               /\ plan[i].isCurrentWeek =>
                      plan[i].weekStartDate = getWeekStart(today)
        /\ \A i \in 1..(Len(plan) - 1) :
               /\ plan[i + 1].weekStartDate = addDays(plan[i].weekStartDate, 7)
               /\ CalendarDay(plan[i + 1].weekStartDate)
                      = CalendarDay(plan[i].weekStartDate) + 7

\* the entry labelled 'Race' starts at the week start of the race
RaceEntryInRaceWeek ==
    LET plan == call.result.plan
    IN  \A i \in 1..Len(plan) :
            plan[i].weekLabel = RaceLabel =>
                plan[i].weekStartDate = getWeekStart(raceDate)

\* C27 as stated: in every plan the entry of week w starts at
\* getWeekStart(today) + 7 x (w - 1) days, so every weekStartDate is a
\* Monday, consecutive entries are 7 days apart, the isCurrentWeek entry
\* starts at getWeekStart(today), and the entry labelled 'Race' starts at
\* getWeekStart(raceDate), for any weekday of today and raceDate
C27_Original ==
    HasPlan => PlanDatesFromToday /\ RaceEntryInRaceWeek

\* how many of the three phase flags of a plan entry are set
PhaseFlags(e) ==
    (IF e.isCutbackWeek THEN 1 ELSE 0) + (IF e.isTaperWeek THEN 1 ELSE 0)
        + (IF e.isPeakWeek THEN 1 ELSE 0)

\* C28: in every entry of every plan at most one of isCutbackWeek,
\* isTaperWeek and isPeakWeek is set, with isPeakWeek iff weekNumber =
\* peakWeek, isTaperWeek iff weekNumber > peakWeek and isCutbackWeek only
\* for weekNumber < peakWeek; weekNumber - peakWeek never exceeds 2, so a
\* taper week of a plan is 75% or 60% of the peak, never the 50% fallback
C28_PhaseFlagsExclusive ==
    HasPlan =>
        \A i \in 1..Len(call.result.plan) :
            LET e == call.result.plan[i]
            IN  /\ PhaseFlags(e) <= 1
                /\ e.isPeakWeek <=> (e.weekNumber = ExpectedPeakWeek)
                /\ e.isTaperWeek <=> (e.weekNumber > ExpectedPeakWeek)
                /\ e.isCutbackWeek => e.weekNumber < ExpectedPeakWeek
                /\ e.weekNumber - ExpectedPeakWeek <= 2
                /\ e.isTaperWeek =>
                       e.weeklyVolumeKm =
                           PercentRounded(ExpectedPeakVolume,
                               IF e.weekNumber - ExpectedPeakWeek = 1 THEN 75 ELSE 60)

\* a plan with a cutback week, the peak week and both taper weeks
C28_Witness ==
    /\ HasPlan
    /\ LET plan == call.result.plan
       IN  /\ Len(plan) >= 7
           /\ plan[4].isCutbackWeek
           /\ plan[Len(plan) - 2].isPeakWeek
           /\ plan[Len(plan) - 1].isTaperWeek
           /\ plan[Len(plan)].isTaperWeek
           /\ plan[Len(plan)].weekNumber - ExpectedPeakWeek = 2

\* C29: in every entry of every plan and in every recommendation
\* longRunKm <= peakLongRunKm and longRunKm <= weeklyVolumeKm, for all race
\* goals, runner levels and starting volumes; in the plan the long run is
\* peakLongRunKm at the peak week, peakLongRunKm x 0.6 in the first week
\* after the peak and x 0.5 in the second, each rounded to 1 decimal
C29_LongRunBounds ==
    /\ HasRecommendation =>
           /\ call.result.longRunKm <= ExpectedPeakLongRun
           /\ call.result.longRunKm <= call.result.weeklyVolumeKm
    /\ HasPlan =>
           \A i \in 1..Len(call.result.plan) :
               LET e == call.result.plan[i]
               IN  /\ e.longRunKm <= ExpectedPeakLongRun
                   /\ e.longRunKm <= e.weeklyVolumeKm
                   /\ e.weekNumber = ExpectedPeakWeek =>
                          e.longRunKm = ExpectedPeakLongRun
                   /\ e.weekNumber = ExpectedPeakWeek + 1 =>
                          e.longRunKm = PercentRounded(ExpectedPeakLongRun, 60)
                   /\ e.weekNumber = ExpectedPeakWeek + 2 =>
                          e.longRunKm = PercentRounded(ExpectedPeakLongRun, 50)

\* a marathon plan from a starting volume above the peak target, with the
\* peak week and both taper weeks: 31.6, 19.0 and 15.8 km
C29_Witness ==
    /\ HasPlan
    /\ raceGoal = "FullMarathon"
    /\ call.startingVolumeKm > ExpectedPeakVolume
    /\ LET plan == call.result.plan
       IN  /\ Len(plan) >= 4
           /\ plan[1].longRunKm = ExpectedPeakLongRun
           /\ plan[Len(plan) - 2].isPeakWeek
           /\ plan[Len(plan) - 2].longRunKm = 3160
           /\ plan[Len(plan) - 1].longRunKm = 1900
           /\ plan[Len(plan)].longRunKm = 1580

\* the activity is a run dated in the calendar week before the week of the
\* clock: [getWeekStart(today) - 7 days, getWeekStart(today))
RunOfLastWeek(a) ==
    /\ a.type \in {"RoadRun", "TreadmillRun"}
    /\ addDays(getWeekStart(today), -7) <= a.date
    /\ a.date < getWeekStart(today)

\* the runs of last week of a list, as a set and in the order of the list
LastWeekRuns(l) == { l[i] : i \in { j \in 1..Len(l) : RunOfLastWeek(l[j]) } }
LastWeekRunsInOrder(l) == SelectSeq(l, RunOfLastWeek)

\* the recommendation for another activity list, all else as in the call
RecommendationFor(activities) ==
    calculateVolumeRecommendation(today, raceGoal, raceDate, activities,
                                  call.raceTimeGoal)

\* C30 as stated: for fixed today, race goal, race date and time goal, two
\* activity lists with the same runs dated in the calendar week before
\* today's week yield identical recommendations: other activities, runs of
\* other weeks and the order of the list change no output field
C30_Original ==
    IsRecommendation =>
        \A other \in ActivityLists \cup ReorderedLists :
            LastWeekRuns(other) = LastWeekRuns(call.activities) =>
                RecommendationFor(other) = call.result
====
